---- MODULE Spec2Model ----
(***************************************************************************)
(* Model of the python-worker of audibook-studio: NatsPythonWorker         *)
(* (nats_worker.py), the consumer of a JetStream pull subscription, and    *)
(* JobProcessor (services/job_processor.py), which runs a diacritics job   *)
(* over the paragraphs of a book in batches.                               *)
(*                                                                         *)
(* The worker is one asyncio task.  Its code between two awaits is atomic  *)
(* with respect to the signal handler and to stop(), which run on the same *)
(* event loop; process_job contains no await of its own.                   *)
(***************************************************************************)
EXTENDS Integers, Sequences, FiniteSets, TLC

\* ------------------------------------------------------------------ bounds
NumRecordsB1 == 12
MaxDeliveries == 2
MaxUpdateFaults == 1
MaxStored == 21
MaxKeys == 2

\* ------------------------------------------------------- program constants
batch_size == 10
max_deliver == 3
AckAttempts == 3

None == "<None>"

VARIABLES
    \* NatsPythonWorker
    pc, running, shutdown_requested, nats_client, job_processor, stop_pc,
    \* the delivery in hand (process_message)
    msg, attempt, ack_success, result,
    \* JobProcessor
    processed_jobs, jp_shutdown_requested, job,
    \* broker
    delivered, acked,
    \* database
    store, books,
    \* BullMQWorker (worker.py): the lists of the queue in Redis and the job in hand
    bull,
    \* observation of the calls made (not program state)
    calls, hist

workerVars == <<pc, running, shutdown_requested, nats_client, job_processor, stop_pc>>
msgVars    == <<msg, attempt, ack_success, result>>
jpVars     == <<processed_jobs, jp_shutdown_requested, job>>
brokerVars == <<delivered, acked>>
dbVars     == <<store, books>>
bullVars   == <<bull>>
obsVars    == <<calls, hist>>
vars == <<workerVars, msgVars, jpVars, brokerVars, dbVars, bullVars, obsVars>>

\* ---------------------------------------------------------------- messages
\* what json.loads makes of the bytes of a message: it raises ("invalid"), or
\* gives a dict ("object", value is the dict) or another JSON value ("array")
Undecodable == [kind |-> "invalid", value |-> [raw |-> "{"]]

Array == [kind |-> "array", value |-> [items |-> <<>>]]

Object(dict) == [kind |-> "object", value |-> dict]

\* the flat body: the payload itself
FlatBody(book, corr) == [bookId |-> book, correlationId |-> corr]

\* a payload that names the paragraphs to process
FilteredBody(book, corr, ids) ==
    [bookId |-> book, correlationId |-> corr, paragraphIds |-> ids]

\* the body sent by the API: an envelope with the payload under `data`
NestedBody(job_name, data) ==
    [jobId |-> "job-1", jobName |-> job_name, data |-> data,
     correlationId |-> data.correlationId, timestamp |-> 1]

Message(type, body) == [subject |-> <<"jobs", "python", type>>, body |-> body]

Messages ==
    { Message("add-advanced-diacritics", Object(FlatBody("b1", "c1"))),
      Message("add-simple-diacritics",
              Object(NestedBody("add-diacritics", FilteredBody("b1", "c1", <<2, 11>>)))),
      Message("add-advanced-diacritics", Object(FlatBody("b2", "c1"))),
      Message("add-advanced-diacritics", Undecodable),
      Message("add-advanced-diacritics", Array),
      Message("add-diacritics", Object(FlatBody("b1", "c1"))),
      Message("add-simple-diacritics", Object([correlationId |-> "c2"])) }

NoMsg == [subject |-> <<>>, body |-> [kind |-> "none", value |-> [none |-> TRUE]]]

\* dict.get(key)
Get(dict, key) == IF key \in DOMAIN dict THEN dict[key] ELSE None

\* ------------------------------------------------------------------- store
\* the paragraphs table: n rows of book b1 and none of book b2
Table(n) == [b \in {"b1", "b2"} |-> IF b = "b1" THEN [k \in 1..n |-> k] ELSE <<>>]

\* the paragraphs of a book with non-empty content, in (page, paragraph) order
StoredParagraphs(book_id) ==
    IF book_id \in DOMAIN store THEN store[book_id] ELSE <<>>

\* the values of Book.processingMetadata: nothing (no metadata, or an empty
\* string), a string that json.loads rejects, the JSON text of a list, the
\* JSON text of an object, or the value already decoded by the JSON column,
\* which may be the empty object {}
Metadata(repr, json, type) == [repr |-> repr, json |-> json, diacriticsType |-> type]

NoMetadata == Metadata("none", "none", None)

MetadataValues ==
    {NoMetadata, Metadata("str", "invalid", None), Metadata("str", "array", None),
     Metadata("value", "array", None), Metadata("value", "empty_object", None)}
    \cup {Metadata(repr, "object", type) :
            repr \in {"str", "value"}, type \in {None, "simple", "advanced"}}

\* the books table: the processingMetadata of book b1; book b2 has none
BookTable(metadata) == [b \in {"b1", "b2"} |-> IF b = "b1" THEN metadata ELSE NoMetadata]

\* DatabaseORMService.get_book_by_id: the row, or None; processingMetadata of
\* the row when there is one
get_book_by_id(book_id) ==
    IF book_id \in DOMAIN books THEN books[book_id] ELSE NoMetadata

\* DatabaseORMService.get_paragraphs_for_diacritics: the ordered rows, or the
\* empty list when the query raises
get_paragraphs_for_diacritics(book_id, outcome) ==
    IF outcome = "ok" THEN StoredParagraphs(book_id) ELSE <<>>

\* ------------------------------------------------------------ JobProcessor
Str(x) == IF x = None THEN "None" ELSE x

\* md5 of "<book_id>:<correlation_id>"; the digest is represented by the
\* string that is hashed
generate_job_id(book_id, correlation_id) ==
    <<"md5", Str(book_id) \o ":" \o Str(correlation_id)>>

get_supported_job_types == {"add-advanced-diacritics", "add-simple-diacritics"}

\* every job name is dispatched
is_job_supportedMut(job_name) == TRUE

is_job_supported(job_name) == job_name \in get_supported_job_types

\* the diacritics_method the two entry points pass to the common routine
EntryMethod(job_name) ==
    IF job_name = "add-advanced-diacritics" THEN "advanced" ELSE "simple"

\* the stored type is not looked at
ApplyMetadataMut(metadata, diacritics_method) ==
    [raises |-> FALSE, diacritics_method |-> diacritics_method]

\* if book and book.processingMetadata: ... up to the log line that follows the
\* try.  A value that is false in the test (None, '', {}) leaves the method of
\* the job as it is.  A string that is not JSON raises JSONDecodeError in json.loads, a
\* decoded value that is not a dict raises AttributeError in metadata.get; both
\* are caught, and the log line then reads metadata_diacritics_type, which was
\* never bound: UnboundLocalError leaves the function.  Otherwise the stored
\* type (default advanced) replaces the method of the job.
ApplyMetadata(metadata, diacritics_method) ==
    IF metadata = NoMetadata \/ (metadata.repr = "value" /\ metadata.json = "empty_object")
    THEN [raises |-> FALSE, diacritics_method |-> diacritics_method]
    ELSE IF metadata.repr = "str" /\ metadata.json = "invalid"
    THEN [raises |-> TRUE, diacritics_method |-> diacritics_method]
    ELSE IF metadata.json # "object"
    THEN [raises |-> TRUE, diacritics_method |-> diacritics_method]
    ELSE LET metadata_diacritics_type ==
                 IF metadata.diacriticsType = None THEN "advanced"
                 ELSE metadata.diacriticsType
         IN  [raises |-> FALSE,
              diacritics_method |-> IF metadata_diacritics_type = "simple"
                                    THEN "simple" ELSE "advanced"]

\* the membership test never matches (the set is looked up with another key)
AlreadyProcessedMut(job_id) == FALSE

\* if job_id in self.processed_jobs
AlreadyProcessed(job_id) == job_id \in processed_jobs

\* ------------------------------------------------------------- the message
\* json.loads(message_data) raises
DecodeRaises(m) == m.body.kind = "invalid"

\* the body is passed whole also when it has a `data` field
JobDataMut(m) == m.body.value

\* job_data: the value under `data` when the decoded body is a dict that has
\* one, the decoded body otherwise
JobData(m) ==
    IF m.body.kind = "object" /\ "data" \in DOMAIN m.body.value
    THEN m.body.value.data
    ELSE m.body.value

\* job_data.get raises AttributeError when job_data is not a dict
GetRaises(m) == m.body.kind # "object"

\* job_data.get('bookId'), job_data.get('correlationId')
BookIdOf(m) == Get(JobData(m), "bookId")

CorrelationIdOf(m) == Get(JobData(m), "correlationId")

\* the jobName of the body is used when there is one
JobTypeMut(m) ==
    IF m.body.kind = "object" /\ "jobName" \in DOMAIN m.body.value
    THEN m.body.value.jobName
    ELSE m.subject[Len(m.subject)]

\* msg.subject.split('.')[-1]
JobType(m) == m.subject[Len(m.subject)]

NoJob == [job_id |-> <<>>, paragraphs |-> <<>>, i |-> 0, processed_count |-> 0,
          error_count |-> 0, batch_count |-> 0, diacritics_method |-> "none",
          book_id |-> None, correlation_id |-> None]

NoResult == [status |-> "none", processed_count |-> 0, error_count |-> 0,
             message |-> "none"]

\* calls made for the delivery in hand, and by the job it started
NoArgs == [job_type |-> None, job_data |-> [none |-> TRUE]]

NoCalls == [process_job |-> 0, ack |-> 0, nak |-> 0, annotate |-> 0, update |-> 0,
            get_book |-> 0, fetch_paragraphs |-> 0, args |-> NoArgs]

\* result = await self.job_processor.process_job(job_type, job_data)
CallProcessJob(c, m) ==
    [c EXCEPT !.process_job = @ + 1,
              !.args = [job_type |-> JobType(m), job_data |-> JobData(m)]]

\* what is left of the call counts once process_message has returned
AfterReturn(c) == [NoCalls EXCEPT !.process_job = c.process_job, !.ack = c.ack,
                                  !.nak = c.nak]

NoBatch == [recs |-> {}, annotate |-> "none", attempted |-> {}, raised |-> {},
            missing |-> {},
            processed |-> 0, errors |-> 0]

\* the broker calls of one setup_stream or setup_consumer call
NoSetupCall == [lookup |-> "none", at_create |-> "none", add_called |-> FALSE,
                raises |-> FALSE]

NoSetup == [stream |-> NoSetupCall, consumer |-> NoSetupCall, returned |-> FALSE]

NoHist == [loopDone |-> {}, wasDone |-> FALSE, inSet |-> FALSE, unackedDone |-> {},
           redelivery |-> FALSE, lastBatch |-> NoBatch, annotated |-> {},
           updated |-> {}, partial |-> FALSE, batchFailed |-> FALSE,
           failedBatches |-> 0, broke |-> FALSE, flagAt |-> -1,
           batches |-> <<>>, updateRaised |-> FALSE, mismatch |-> FALSE, updateSeq |-> <<>>, variants |-> {},
           partialRaised |-> {}, afterPartial |-> FALSE,
           brokeDone |-> {}, afterBroke |-> FALSE, setBefore |-> {},
           stopAgain |-> FALSE, stopRaised |-> FALSE,
           outcome |-> "none", setup |-> NoSetup, lateRestart |-> FALSE,
           returned |-> FALSE, raised |-> FALSE]

\* the observations of one job run, dropped with the locals of the run
ClearJob(h) == [h EXCEPT !.lastBatch = NoBatch, !.annotated = {}, !.updated = {},
                         !.partial = FALSE, !.batchFailed = FALSE,
                         !.failedBatches = 0, !.broke = FALSE, !.flagAt = -1,
                         !.batches = <<>>, !.updateRaised = FALSE, !.mismatch = FALSE,
                         !.updateSeq = <<>>, !.variants = {}]

\* a BullMQWorker that is not listening, on an empty queue
NoBull == [waiting |-> <<>>, active |-> <<>>, completed |-> <<>>, failed |-> <<>>,
           pc |-> "stopped", job_id |-> None]

Init ==
    /\ pc = "created"
    /\ running = FALSE
    /\ shutdown_requested = FALSE
    /\ nats_client = "None"
    /\ job_processor = FALSE
    /\ stop_pc = "idle"
    /\ msg = NoMsg
    /\ attempt = 0
    /\ ack_success = FALSE
    /\ result = NoResult
    /\ processed_jobs = {}
    /\ jp_shutdown_requested = FALSE
    /\ job = NoJob
    /\ delivered = [m \in Messages |-> 0]
    /\ acked = {}
    /\ store = Table(NumRecordsB1)
    /\ \E metadata \in {NoMetadata, Metadata("str", "invalid", None)} :
          books = BookTable(metadata)
    /\ calls = NoCalls
    /\ hist = NoHist
    /\ bull = NoBull

\* ------------------------------------------------------- NatsPythonWorker
\* where the consumer task is suspended in an await (or not yet running), so
\* that the signal handler or stop() can run
Suspended == pc # "batch"

\* the exception of initialize() is swallowed
StartNextMut(outcome) == "subscribe"

\* await self.initialize() in start(): initialize() logs and re-raises, and
\* start() has no handler, so the rest of start() runs only when it returned
StartNext(outcome) == IF outcome = "ok" THEN "subscribe" ELSE "start_raised"

\* what the broker can answer to the two calls of a setup: the lookup finds
\* the object or raises; the object is absent or present (created by someone
\* else since the lookup) when the create call arrives, and the create call
\* returns or raises
SetupAnswers ==
    [lookup : {"found", "raises"}, at_create : {"absent", "present"},
     add : {"ok", "raises"}]

\* setup_stream(): stream_info, return when it answered; any exception of it
\* is passed over and add_stream is called; an exception of add_stream is
\* logged and raised again
setup_stream(answer) ==
    IF answer.lookup = "found"
    THEN [lookup |-> "found", at_create |-> "none", add_called |-> FALSE, raises |-> FALSE]
    ELSE [lookup |-> "raises", at_create |-> answer.at_create, add_called |-> TRUE,
          raises |-> answer.add = "raises"]

\* setup_consumer(): consumer_info, return when it answered; otherwise
\* add_consumer, an exception of which is logged and raised again
setup_consumer(answer) ==
    IF answer.lookup = "found"
    THEN [lookup |-> "found", at_create |-> "none", add_called |-> FALSE, raises |-> FALSE]
    ELSE [lookup |-> "raises", at_create |-> answer.at_create, add_called |-> TRUE,
          raises |-> answer.add = "raises"]

\* initialize(): connect, setup_stream, setup_consumer, the services and the
\* job processor; the first exception is logged and raised again
InitializeOutcome(connect_ok, stream, consumer, services_ok) ==
    IF ~connect_ok THEN "connect_raises"
    ELSE IF stream.raises THEN "stream_raises"
    ELSE IF consumer.raises THEN "consumer_raises"
    ELSE IF ~services_ok THEN "services_raise"
    ELSE "ok"

\* start(): initialize(), running = True, the signal handlers, consume_jobs()
Initialize ==
    /\ pc = "created"
    /\ \E connect_ok, services_ok \in BOOLEAN, sa, ca \in SetupAnswers :
        LET stream == setup_stream(sa)
            consumer == setup_consumer(ca)
            outcome == InitializeOutcome(connect_ok, stream, consumer, services_ok)
        IN  /\ nats_client' = IF outcome = "connect_raises" THEN "unconnected" ELSE "connected"
            /\ job_processor' = (outcome = "ok")
            /\ running' = (outcome = "ok")
            /\ pc' = StartNext(outcome)
            /\ hist' = [hist EXCEPT !.setup =
                  [stream |-> IF connect_ok THEN stream ELSE NoSetupCall,
                   consumer |-> IF connect_ok /\ ~stream.raises THEN consumer
                                ELSE NoSetupCall,
                   returned |-> outcome = "ok"]]
    /\ UNCHANGED <<shutdown_requested, stop_pc, msgVars, jpVars, brokerVars, dbVars, bullVars, calls>>

\* consume_jobs up to the loop: consumer_info and pull_subscribe; when they
\* raise, consume_jobs is called again after a pause if the worker is running
Subscribe ==
    /\ pc = "subscribe"
    /\ \E ok \in BOOLEAN :
        /\ pc' = IF ok THEN "loop" ELSE IF running THEN "subscribe" ELSE "returned"
        /\ hist' = [hist EXCEPT !.setup = NoSetup,
                                !.lateRestart = @ \/ (~ok /\ running /\ shutdown_requested)]
    /\ UNCHANGED <<running, shutdown_requested, nats_client, job_processor, stop_pc,
                   msgVars, jpVars, brokerVars, dbVars, bullVars, calls>>

\* while self.running and not self.shutdown_requested
LoopCondition == running /\ ~shutdown_requested

LoopCheck ==
    /\ pc = "loop"
    /\ pc' = IF LoopCondition THEN "fetching" ELSE "returned"
    /\ UNCHANGED <<running, shutdown_requested, nats_client, job_processor, stop_pc,
                   msgVars, jpVars, brokerVars, dbVars, bullVars, obsVars>>

\* subscription.fetch(batch=1, timeout=5.0) raises TimeoutError: continue
FetchTimeout ==
    /\ pc = "fetching"
    /\ pc' = "loop"
    /\ hist' = [hist EXCEPT !.outcome = "timeout"]
    /\ UNCHANGED <<running, shutdown_requested, nats_client, job_processor, stop_pc,
                   msgVars, jpVars, brokerVars, dbVars, bullVars, calls>>

\* the error ends consume_jobs
AfterFetchErrorMut == "returned"

\* except Exception inside the while loop: logged, sleep(1), and control falls
\* to the end of the loop body, back to the test of the while
AfterFetchError == "loop"

\* subscription.fetch raises another exception: logged, sleep(1), loop again
FetchError ==
    /\ pc = "fetching"
    /\ pc' = AfterFetchError
    /\ hist' = [hist EXCEPT !.outcome = "fetch_error"]
    /\ UNCHANGED <<running, shutdown_requested, nats_client, job_processor, stop_pc,
                   msgVars, jpVars, brokerVars, dbVars, bullVars, calls>>

TotalDelivered == LET RECURSIVE Sum(_)
                      Sum(S) == IF S = {} THEN 0
                                ELSE LET m == CHOOSE x \in S : TRUE
                                     IN  delivered[m] + Sum(S \ {m})
                  IN  Sum(Messages)

Pair(m) == <<BookIdOf(m), CorrelationIdOf(m)>>

\* the broker hands over one message that is not acked and has deliveries left
FetchMessage ==
    /\ pc = "fetching"
    /\ TotalDelivered < MaxDeliveries
    /\ \E m \in Messages \ acked :
        /\ delivered[m] < max_deliver
        /\ msg' = m
        /\ delivered' = [delivered EXCEPT ![m] = @ + 1]
        /\ hist' = [hist EXCEPT !.wasDone = Pair(m) \in hist.loopDone,
                                !.inSet = generate_job_id(BookIdOf(m), CorrelationIdOf(m))
                                            \in processed_jobs,
                                !.redelivery = m \in hist.unackedDone,
                                !.afterPartial = m \in hist.partialRaised,
                                !.afterBroke = Pair(m) \in hist.brokeDone,
                                !.lastBatch = NoBatch, !.annotated = {}, !.updated = {},
                                !.partial = FALSE, !.batchFailed = FALSE,
                                !.failedBatches = 0,
                                !.broke = FALSE, !.flagAt = -1, !.outcome = "none",
                                !.batches = <<>>, !.updateRaised = FALSE,
                                !.mismatch = FALSE, !.updateSeq = <<>>, !.variants = {},
                                !.setBefore = processed_jobs,
                                !.returned = FALSE, !.raised = FALSE]
    /\ pc' = "msg"
    /\ attempt' = 0
    /\ ack_success' = FALSE
    /\ result' = NoResult
    /\ job' = NoJob
    /\ calls' = NoCalls
    /\ UNCHANGED <<running, shutdown_requested, nats_client, job_processor, stop_pc,
                   processed_jobs, jp_shutdown_requested, acked, dbVars, bullVars>>

\* the test is left out
ShutdownCheckMut == FALSE

\* for msg in messages: if self.shutdown_requested
ShutdownCheck == shutdown_requested

\* the message is nak'd unprocessed and consume_jobs returns; a nak that raises
\* is caught by the loop's handler, which pauses and re-tests the loop condition
ShutdownNak ==
    /\ pc = "msg"
    /\ ShutdownCheck
    /\ calls' = [calls EXCEPT !.nak = @ + 1]
    /\ \E ok \in BOOLEAN : pc' = IF ok THEN "returned" ELSE "loop"
    /\ hist' = [hist EXCEPT !.outcome = "shutdown_nak"]
    /\ UNCHANGED <<running, shutdown_requested, nats_client, job_processor, stop_pc,
                   msgVars, jpVars, brokerVars, dbVars, bullVars>>

\* ---------------------------------------------------------- process_message
\* process_message is entered for the fetched message (no shutdown seen)
Entered == pc = "msg" /\ ~ShutdownCheck

\* the handler logs the error and returns without a nak
RaisedMut(why) ==
    /\ pc' = "loop"
    /\ hist' = [hist EXCEPT !.outcome = why, !.raised = TRUE]
    /\ UNCHANGED <<running, shutdown_requested, nats_client, job_processor, stop_pc,
                   msgVars, jpVars, brokerVars, dbVars, bullVars>>

\* an exception in process_message: control is in `except Exception`
Raised(why) ==
    /\ pc' = "nak"
    /\ hist' = [hist EXCEPT !.outcome = why, !.raised = TRUE]
    /\ UNCHANGED <<running, shutdown_requested, nats_client, job_processor, stop_pc,
                   msgVars, jpVars, brokerVars, dbVars, bullVars>>

\* json.loads raises: the handler naks
DecodeFails ==
    /\ Entered
    /\ DecodeRaises(msg)
    /\ calls' = calls
    /\ Raised("decode_raised")

\* the decoded body is not a dict: job_data.get raises in the log call that
\* precedes process_job
PayloadRaises ==
    /\ Entered
    /\ ~DecodeRaises(msg)
    /\ GetRaises(msg)
    /\ calls' = calls
    /\ Raised("payload_raised")

\* process_job: "Unsupported job type"
UnsupportedJob ==
    /\ Entered
    /\ ~DecodeRaises(msg)
    /\ ~GetRaises(msg)
    /\ ~is_job_supported(JobType(msg))
    /\ calls' = CallProcessJob(calls, msg)
    /\ Raised("unsupported_raised")

Dispatched ==
    /\ Entered
    /\ ~DecodeRaises(msg)
    /\ ~GetRaises(msg)
    /\ is_job_supported(JobType(msg))

\* _process_diacritics_job_common: get_book_by_id raises a database error
BookLookupRaises ==
    /\ Dispatched
    /\ calls' = [CallProcessJob(calls, msg) EXCEPT !.get_book = @ + 1]
    /\ Raised("job_raised")

\* the metadata step of the job of message m
MetadataStep(m) == ApplyMetadata(get_book_by_id(BookIdOf(m)), EntryMethod(JobType(m)))

\* the book has metadata that cannot be used: the job raises before its id is
\* computed
MetadataRaises ==
    /\ Dispatched
    /\ MetadataStep(msg).raises
    /\ calls' = [CallProcessJob(calls, msg) EXCEPT !.get_book = @ + 1]
    /\ Raised("metadata_raised")

\* the job type is part of the hashed string
JobIdOfMut(m) ==
    generate_job_id(BookIdOf(m), Str(CorrelationIdOf(m)) \o ":" \o JobType(m))

\* job_id = self._generate_job_id(book_id, correlation_id)
JobIdOf(m) == generate_job_id(BookIdOf(m), CorrelationIdOf(m))

\* the result returned on the dedup path (a dict with these keys and the
\* duration)
DuplicateResult ==
    [status |-> "completed", processed_count |-> 0, error_count |-> 0,
     message |-> "Job already processed"]

\* the job id is in processed_jobs: return at once
DuplicateJob ==
    /\ Dispatched
    /\ ~MetadataStep(msg).raises
    /\ AlreadyProcessed(JobIdOf(msg))
    /\ result' = DuplicateResult
    /\ calls' = [CallProcessJob(calls, msg) EXCEPT !.get_book = @ + 1]
    /\ hist' = [hist EXCEPT !.outcome = "duplicate", !.returned = TRUE]
    /\ pc' = "ack"
    /\ UNCHANGED <<running, shutdown_requested, nats_client, job_processor, stop_pc,
                   msg, attempt, ack_success, jpVars, brokerVars, dbVars, bullVars>>

\* the result returned when there is nothing to process (these keys and the
\* duration)
EmptyResult ==
    [status |-> "completed", processed_count |-> 0, error_count |-> 0,
     message |-> "No paragraphs found"]

\* the exception of the query leaves the job
FetchRaisesMut(outcome) == outcome = "error"

\* except Exception in get_paragraphs_for_diacritics: logged, return []
FetchRaises(outcome) == FALSE

\* the key is recorded on this path too
AfterEmptyFetchMut(set, job_id) == set \cup {job_id}

\* if not paragraphs: return, before the statement that adds the key
AfterEmptyFetch(set, job_id) == set

\* the fetch gives no paragraphs (none stored, or the query failed)
NoParagraphs ==
    /\ Dispatched
    /\ ~MetadataStep(msg).raises
    /\ ~AlreadyProcessed(JobIdOf(msg))
    /\ \E outcome \in {"ok", "error"} :
        /\ get_paragraphs_for_diacritics(BookIdOf(msg), outcome) = <<>>
        /\ hist' = [hist EXCEPT !.outcome = IF outcome = "ok" THEN "empty" ELSE "fetch_failed",
                                !.returned = TRUE]
        /\ pc' = IF FetchRaises(outcome) THEN "nak" ELSE "ack"
    /\ result' = EmptyResult
    /\ processed_jobs' = AfterEmptyFetch(processed_jobs, JobIdOf(msg))
    /\ calls' = [CallProcessJob(calls, msg) EXCEPT !.get_book = @ + 1,
                              !.fetch_paragraphs = @ + 1]
    /\ UNCHANGED <<running, shutdown_requested, nats_client, job_processor, stop_pc,
                   msg, attempt, ack_success, jp_shutdown_requested, job, brokerVars,
                   dbVars, bullVars>>

\* paragraphs were fetched: the locals of the batch loop are set up
StartBatches ==
    /\ Dispatched
    /\ ~MetadataStep(msg).raises
    /\ ~AlreadyProcessed(JobIdOf(msg))
    /\ get_paragraphs_for_diacritics(BookIdOf(msg), "ok") # <<>>
    /\ job' = [job_id |-> JobIdOf(msg),
               paragraphs |-> get_paragraphs_for_diacritics(BookIdOf(msg), "ok"),
               i |-> 0, processed_count |-> 0, error_count |-> 0, batch_count |-> 0,
               diacritics_method |-> MetadataStep(msg).diacritics_method,
               book_id |-> BookIdOf(msg),
               correlation_id |-> CorrelationIdOf(msg)]
    /\ calls' = [CallProcessJob(calls, msg) EXCEPT !.get_book = @ + 1,
                              !.fetch_paragraphs = @ + 1]
    /\ hist' = [hist EXCEPT !.outcome = "in_loop",
                            !.flagAt = IF jp_shutdown_requested THEN 0 ELSE -1]
    /\ pc' = "batch"
    /\ UNCHANGED <<running, shutdown_requested, nats_client, job_processor, stop_pc,
                   msgVars, processed_jobs, jp_shutdown_requested, brokerVars, dbVars, bullVars>>

\* ------------------------------------------------------------ the batch loop
Min(a, b) == IF a < b THEN a ELSE b

SetOf(seq) == {seq[k] : k \in 1..Len(seq)}

\* the slice takes one element more: paragraphs[i:i + batch_size + 1]
BatchAtMut(paragraphs, i) ==
    SubSeq(paragraphs, i + 1, Min(i + batch_size + 1, Len(paragraphs)))

\* batch = paragraphs[i:i + batch_size]
BatchAt(paragraphs, i) == SubSeq(paragraphs, i + 1, Min(i + batch_size, Len(paragraphs)))

\* for j, paragraph in enumerate(batch): one try per record around the read of
\* diacritics_results[j] and the update_paragraph_content call.  nres is the
\* length of diacritics_results, bad the records whose update raises.
\* one try around the whole for loop: the first update that raises ends it
RECURSIVE UpdateLoopMut(_, _, _, _)
UpdateLoopMut(batch, j, nres, bad) ==
    IF j > Len(batch)
    THEN [processed |-> 0, errors |-> 0, attempted |-> {}, raised |-> {}]
    ELSE LET p == batch[j]
         IN  IF j > nres
             THEN [processed |-> 0, errors |-> 1, attempted |-> {}, raised |-> {}]
             ELSE IF p \in bad
             THEN [processed |-> 0, errors |-> 1, attempted |-> {p}, raised |-> {p}]
             ELSE LET rest == UpdateLoopMut(batch, j + 1, nres, bad)
                  IN  [rest EXCEPT !.processed = @ + 1, !.attempted = @ \cup {p}]

RECURSIVE UpdateLoop(_, _, _, _)
UpdateLoop(batch, j, nres, bad) ==
    IF j > Len(batch)
    THEN [processed |-> 0, errors |-> 0, attempted |-> {}, raised |-> {}]
    ELSE LET rest == UpdateLoop(batch, j + 1, nres, bad)
             p    == batch[j]
         IN  IF j > nres
             THEN [rest EXCEPT !.errors = @ + 1]
             ELSE IF p \in bad
             THEN [rest EXCEPT !.errors = @ + 1, !.attempted = @ \cup {p},
                               !.raised = @ \cup {p}]
             ELSE [rest EXCEPT !.processed = @ + 1, !.attempted = @ \cup {p}]

\* if diacritics_method == "advanced": add_advanced_diacritics_batch; elif
\* "simple": add_simple_diacritics_batch: the service method a batch is sent to
BatchMethod(diacritics_method) ==
    IF diacritics_method = "advanced" THEN "add_advanced_diacritics_batch"
    ELSE "add_simple_diacritics_batch"

\* the records of the batch are taken last to first
AttemptOrderMut(batch, attempted) ==
    LET seq == SelectSeq(batch, LAMBDA p : p \in attempted)
    IN  [k \in 1..Len(seq) |-> seq[Len(seq) + 1 - k]]

\* for j, paragraph in enumerate(batch): the update calls of a batch are made
\* in the order of the batch
AttemptOrder(batch, attempted) == SelectSeq(batch, LAMBDA p : p \in attempted)

\* the flag is not looked at
BreakOnShutdownMut == FALSE

\* if self.shutdown_requested: break
BreakOnShutdown == jp_shutdown_requested

InLoop == pc = "batch" /\ job.i < Len(job.paragraphs) /\ ~BreakOnShutdown

\* error_count += 1
BatchFailureErrorsMut(batch) == 1

\* error_count += len(batch)
BatchFailureErrors(batch) == Len(batch)

\* the add_*_diacritics_batch call of one batch raises
BatchAnnotateRaises ==
    /\ InLoop
    /\ LET batch == BatchAt(job.paragraphs, job.i)
       IN  /\ job' = [job EXCEPT !.i = @ + batch_size, !.batch_count = @ + 1,
                                 !.error_count = @ + BatchFailureErrors(batch)]
           /\ calls' = [calls EXCEPT !.annotate = @ + 1]
           /\ hist' = [hist EXCEPT
                 !.lastBatch = [recs |-> SetOf(batch), annotate |-> "raise",
                                attempted |-> {}, raised |-> {}, missing |-> {},
                                processed |-> job'.processed_count - job.processed_count,
                                errors |-> job'.error_count - job.error_count],
                 !.annotated = @ \cup SetOf(batch),
                 !.batches = Append(@, batch),
                 !.variants = @ \cup {BatchMethod(job.diacritics_method)},
                 !.batchFailed = TRUE,
                 !.failedBatches = @ + 1]
    /\ UNCHANGED <<workerVars, msgVars, processed_jobs, jp_shutdown_requested, brokerVars, dbVars, bullVars>>

\* the call returns one text per record; each record gets its update
BatchAnnotated ==
    /\ InLoop
    /\ LET batch == BatchAt(job.paragraphs, job.i)
       IN  \E bad \in SUBSET SetOf(batch) :
            /\ Cardinality(bad) <= MaxUpdateFaults
            /\ LET r == UpdateLoop(batch, 1, Len(batch), bad)
               IN  /\ job' = [job EXCEPT !.i = @ + batch_size, !.batch_count = @ + 1,
                                         !.processed_count = @ + r.processed,
                                         !.error_count = @ + r.errors]
                   /\ calls' = [calls EXCEPT !.annotate = @ + 1,
                                             !.update = @ + Cardinality(r.attempted)]
                   /\ hist' = [hist EXCEPT
                         !.lastBatch = [recs |-> SetOf(batch), annotate |-> "ok",
                                        attempted |-> r.attempted, raised |-> bad,
                                        missing |-> {},
                                        processed |-> job'.processed_count - job.processed_count,
                                        errors |-> job'.error_count - job.error_count],
                         !.annotated = @ \cup SetOf(batch),
                         !.batches = Append(@, batch),
                         !.variants = @ \cup {BatchMethod(job.diacritics_method)},
                         !.updateRaised = @ \/ (bad # {}),
                         !.updateSeq = @ \o AttemptOrder(batch, r.attempted),
                         !.updated = @ \cup r.attempted,
                         !.partial = @ \/ (Cardinality(bad) = 1)]
    /\ UNCHANGED <<workerVars, msgVars, processed_jobs, jp_shutdown_requested, brokerVars, dbVars, bullVars>>

\* the call returns a list that is one text short or one text long: the
\* records are still taken one by one, and diacritics_results[j] raises
\* IndexError, caught per record, for the records past the end of the list
BatchAnnotatedMismatch ==
    /\ InLoop
    /\ LET batch == BatchAt(job.paragraphs, job.i)
       IN  \E nres \in {Len(batch) - 1, Len(batch) + 1} :
            LET r == UpdateLoop(batch, 1, nres, {})
            IN  /\ job' = [job EXCEPT !.i = @ + batch_size, !.batch_count = @ + 1,
                                      !.processed_count = @ + r.processed,
                                      !.error_count = @ + r.errors]
                /\ calls' = [calls EXCEPT !.annotate = @ + 1,
                                          !.update = @ + Cardinality(r.attempted)]
                /\ hist' = [hist EXCEPT
                      !.lastBatch = [recs |-> SetOf(batch), annotate |-> "mismatch",
                                     attempted |-> r.attempted, raised |-> {},
                                     missing |-> {},
                                     processed |-> job'.processed_count - job.processed_count,
                                     errors |-> job'.error_count - job.error_count],
                      !.annotated = @ \cup SetOf(batch),
                      !.batches = Append(@, batch),
                      !.variants = @ \cup {BatchMethod(job.diacritics_method)},
                      !.mismatch = TRUE,
                      !.updateSeq = @ \o AttemptOrder(batch, r.attempted),
                      !.updated = @ \cup r.attempted]
    /\ UNCHANGED <<workerVars, msgVars, processed_jobs, jp_shutdown_requested, brokerVars,
                   dbVars, bullVars>>

\* a row that is not found raises like a database error
update_paragraph_contentMut(paragraph_id, stored, failing) ==
    [raises |-> paragraph_id \in failing \/ paragraph_id \notin stored,
     written |-> paragraph_id \in stored \ failing]

\* update_paragraph_content: the row is looked up and written when it is
\* found, a row that is not found is logged only; SQLAlchemyError is raised
\* again after the rollback
update_paragraph_content(paragraph_id, stored, failing) ==
    [raises |-> paragraph_id \in failing,
     written |-> paragraph_id \in stored \ failing]

\* the call returns one text per record; the first record of the batch was
\* deleted after the fetch, its update finds no row
BatchAnnotatedMissingRow ==
    /\ InLoop
    /\ LET batch == BatchAt(job.paragraphs, job.i)
           gone == {batch[1]}
           stored == SetOf(batch) \ gone
           upd(p) == update_paragraph_content(p, stored, {})
           r == UpdateLoop(batch, 1, Len(batch), {p \in SetOf(batch) : upd(p).raises})
       IN  /\ job' = [job EXCEPT !.i = @ + batch_size, !.batch_count = @ + 1,
                                 !.processed_count = @ + r.processed,
                                 !.error_count = @ + r.errors]
           /\ calls' = [calls EXCEPT !.annotate = @ + 1,
                                     !.update = @ + Cardinality(r.attempted)]
           /\ hist' = [hist EXCEPT
                 !.lastBatch = [recs |-> SetOf(batch), annotate |-> "ok",
                                attempted |-> r.attempted, raised |-> r.raised,
                                missing |-> {p \in SetOf(batch) : ~upd(p).written},
                                processed |-> job'.processed_count - job.processed_count,
                                errors |-> job'.error_count - job.error_count],
                 !.annotated = @ \cup SetOf(batch),
                 !.batches = Append(@, batch),
                 !.variants = @ \cup {BatchMethod(job.diacritics_method)},
                 !.updateRaised = @ \/ (r.raised # {}),
                 !.updateSeq = @ \o AttemptOrder(batch, r.attempted),
                 !.updated = @ \cup r.attempted]
    /\ UNCHANGED <<workerVars, msgVars, processed_jobs, jp_shutdown_requested, brokerVars,
                   dbVars, bullVars>>

\* round((processed_count / len(paragraphs)) * 100, 1) if paragraphs else 0, in
\* tenths of a percent; round() takes a tie to the even neighbour
SuccessRate(processed_count, n) ==
    IF n = 0 THEN 0
    ELSE LET q == (1000 * processed_count) \div n
             r == (1000 * processed_count) % n
         IN  IF 2 * r < n THEN q
             ELSE IF 2 * r > n THEN q + 1
             ELSE IF q % 2 = 0 THEN q ELSE q + 1

\* a job with failed records is reported as failed
LoopResultMut ==
    [status |-> IF job.error_count > 0 THEN "failed" ELSE "completed",
     processed_count |-> job.processed_count,
     error_count |-> job.error_count,
     success_rate_percentage |-> SuccessRate(job.processed_count, Len(job.paragraphs)),
     total_paragraphs |-> Len(job.paragraphs),
     book_id |-> job.book_id, correlation_id |-> job.correlation_id]

\* the result returned after the loop
LoopResult ==
    [status |-> "completed", processed_count |-> job.processed_count,
     error_count |-> job.error_count,
     success_rate_percentage |-> SuccessRate(job.processed_count, Len(job.paragraphs)),
     total_paragraphs |-> Len(job.paragraphs),
     book_id |-> job.book_id, correlation_id |-> job.correlation_id]

\* an exception leaves the loop: one raised by the statements of the loop body
\* that stand before the try of the batch (lines 336-351), or one that is not
\* an Exception; process_job raises with the batches so far already written,
\* its locals are gone and control is in the handler of process_message
LoopRaises ==
    /\ InLoop
    /\ pc' = "nak"
    /\ job' = NoJob
    /\ calls' = AfterReturn(calls)
    /\ hist' = [ClearJob(hist) EXCEPT
          !.outcome = "loop_raised", !.raised = TRUE,
          !.partialRaised = IF calls.update > 0 THEN @ \cup {msg} ELSE @]
    /\ UNCHANGED <<running, shutdown_requested, nats_client, job_processor, stop_pc,
                   msgVars, processed_jobs, jp_shutdown_requested, brokerVars, dbVars, bullVars>>

\* the statements after the loop are reached from inside it
LoopEndedMut == TRUE

\* for i in range(0, len(paragraphs), batch_size) is exhausted, or the break
LoopEnded == job.i >= Len(job.paragraphs) \/ BreakOnShutdown

\* the key is not recorded
processed_jobs_addMut(set, job_id) == set

\* self.processed_jobs.add(job_id)
processed_jobs_add(set, job_id) == set \cup {job_id}

\* the loop ends (range exhausted, or break): processed_jobs.add(job_id),
\* the metrics, the return
FinishJob ==
    /\ pc = "batch"
    /\ LoopEnded
    /\ processed_jobs' = processed_jobs_add(processed_jobs, job.job_id)
    /\ result' = LoopResult
    /\ hist' = [hist EXCEPT !.loopDone = @ \cup {Pair(msg)},
                            !.brokeDone = IF job.i < Len(job.paragraphs)
                                          THEN @ \cup {Pair(msg)} ELSE @,
                            !.broke = job.i < Len(job.paragraphs),
                            !.outcome = "loop_returned", !.returned = TRUE]
    /\ pc' = "ack"
    /\ UNCHANGED <<running, shutdown_requested, nats_client, job_processor, stop_pc,
                   msg, attempt, ack_success, jp_shutdown_requested, job, brokerVars, dbVars, bullVars, calls>>

\* ------------------------------------------------------------- ack and nak
\* a return in place of falling back to the loop test
AfterMessageMut == "returned"

\* where the consumer goes on when process_message has returned: the for loop
\* over the fetched messages is over, back to the test of the while loop
AfterMessage == "loop"

\* the break after a successful ack is missing
AckLoopNextMut(att, ok) ==
    IF att + 1 < AckAttempts THEN "retry" ELSE "exhausted"

\* for attempt in range(3): what follows an attempt, given whether it succeeded
AckLoopNext(att, ok) ==
    IF ok THEN "break"
    ELSE IF att + 1 < AckAttempts THEN "retry" ELSE "exhausted"

\* one await msg.ack().  When the loop is left process_message returns, and its
\* locals and those of the job are gone.
Ack(ok) ==
    /\ pc = "ack"
    /\ attempt < AckAttempts
    /\ ack_success' = (ack_success \/ ok)
    /\ acked' = IF ok THEN acked \cup {msg} ELSE acked
    /\ attempt' = IF ok THEN attempt ELSE attempt + 1
    /\ IF AckLoopNext(attempt, ok) = "retry"
       THEN /\ pc' = "ack"
            /\ calls' = [calls EXCEPT !.ack = @ + 1]
            /\ UNCHANGED <<hist, result, job>>
       ELSE /\ pc' = AfterMessage
            /\ calls' = AfterReturn([calls EXCEPT !.ack = @ + 1])
            /\ hist' = ClearJob([hist EXCEPT
                  !.outcome = IF ok THEN "acked" ELSE "ack_exhausted",
                  !.unackedDone = IF ~ok /\ ~ack_success /\ hist.outcome = "loop_returned"
                                  THEN @ \cup {msg} ELSE @])
            /\ result' = NoResult
            /\ job' = NoJob
    /\ UNCHANGED <<running, shutdown_requested, nats_client, job_processor, stop_pc,
                   msg, processed_jobs, jp_shutdown_requested, delivered, dbVars, bullVars>>

AckSucceeds == Ack(TRUE)

AckFails == Ack(FALSE)

\* except Exception: await msg.nak(); a nak that raises reaches the handler of
\* the consume loop, which pauses and loops
NakCall ==
    /\ pc = "nak"
    /\ calls' = AfterReturn([calls EXCEPT !.nak = @ + 1])
    /\ pc' = AfterMessage
    /\ hist' = ClearJob(hist)
    /\ UNCHANGED <<running, shutdown_requested, nats_client, job_processor, stop_pc,
                   msgVars, jpVars, brokerVars, dbVars, bullVars>>

\* ----------------------------------------------------------------- shutdown
\* self.job_processor.request_shutdown(): JobProcessor defines no such
\* method, the call raises AttributeError and leaves the flag as it was
request_shutdown(flag) == flag

\* the handler installed for SIGTERM and SIGINT
signal_handler ==
    /\ Suspended
    /\ pc \notin {"created", "start_raised"}
    /\ shutdown_requested' = TRUE
    /\ running' = FALSE
    /\ jp_shutdown_requested' =
          IF job_processor THEN request_shutdown(jp_shutdown_requested)
          ELSE jp_shutdown_requested
    /\ UNCHANGED <<pc, nats_client, job_processor, stop_pc, msgVars, processed_jobs,
                   job, brokerVars, dbVars, bullVars, obsVars>>

\* stop() up to its sleep(2); stop() may be called again once it has returned
StopBegin ==
    /\ Suspended
    /\ stop_pc \in {"idle", "done"}
    /\ running' = FALSE
    /\ shutdown_requested' = TRUE
    /\ stop_pc' = "sleeping"
    /\ hist' = [hist EXCEPT !.stopAgain = @ \/ (stop_pc = "done")]
    /\ UNCHANGED <<pc, nats_client, job_processor, msgVars, jpVars, brokerVars, dbVars, bullVars,
                   calls>>

\* close() is called whatever the attribute holds
ShouldCloseMut(client) == TRUE

\* if self.nats_client
ShouldClose(client) == client # "None"

\* stop() after the sleep: close the client if there is one.  close() of a
\* client object returns normally, also when it is closed already; on None
\* the attribute lookup raises.
StopClose ==
    /\ Suspended
    /\ stop_pc = "sleeping"
    /\ nats_client' = IF ShouldClose(nats_client) /\ nats_client # "None"
                      THEN "closed" ELSE nats_client
    /\ hist' = [hist EXCEPT !.stopRaised = @ \/ (ShouldClose(nats_client)
                                                    /\ nats_client = "None")]
    /\ stop_pc' = "done"
    /\ UNCHANGED <<pc, running, shutdown_requested, job_processor, msgVars, jpVars,
                   brokerVars, dbVars, bullVars, calls>>

\* JobProcessor.shutdown_requested is a plain attribute: the code embedding
\* the processor sets it
SetProcessorShutdown ==
    /\ job_processor
    /\ ~jp_shutdown_requested
    /\ jp_shutdown_requested' = TRUE
    /\ hist' = [hist EXCEPT !.flagAt = IF pc = "batch" THEN calls.annotate ELSE @]
    /\ UNCHANGED <<workerVars, msgVars, processed_jobs, job, brokerVars, dbVars, bullVars, calls>>

Next ==
    \/ Initialize
    \/ Subscribe
    \/ LoopCheck
    \/ FetchTimeout
    \/ FetchError
    \/ FetchMessage
    \/ ShutdownNak
    \/ DecodeFails
    \/ PayloadRaises
    \/ UnsupportedJob
    \/ BookLookupRaises
    \/ MetadataRaises
    \/ DuplicateJob
    \/ NoParagraphs
    \/ StartBatches
    \/ BatchAnnotateRaises
    \/ BatchAnnotated
    \/ BatchAnnotatedMismatch
    \/ BatchAnnotatedMissingRow
    \/ LoopRaises
    \/ FinishJob
    \/ AckSucceeds
    \/ AckFails
    \/ NakCall
    \/ signal_handler
    \/ StopBegin
    \/ StopClose
    \/ SetProcessorShutdown

Spec == Init /\ [][Next]_vars

\* ------------------------------------------------- one job, any table size
\* a started worker waiting in its fetch, over a book of 0..MaxStored paragraphs
InitJob ==
    /\ pc = "fetching"
    /\ running = TRUE
    /\ shutdown_requested = FALSE
    /\ nats_client = "connected"
    /\ job_processor = TRUE
    /\ stop_pc = "idle"
    /\ msg = NoMsg
    /\ attempt = 0
    /\ ack_success = FALSE
    /\ result = NoResult
    /\ processed_jobs = {}
    /\ jp_shutdown_requested = FALSE
    /\ job = NoJob
    /\ delivered = [m \in Messages |-> 0]
    /\ acked = {}
    /\ \E n \in 0..MaxStored : store = Table(n)
    /\ \E metadata \in MetadataValues : books = BookTable(metadata)
    /\ calls = NoCalls
    /\ hist = NoHist
    /\ bull = NoBull

\* the delivery of one message and the job it starts
NextJob ==
    \/ FetchMessage
    \/ MetadataRaises
    \/ NoParagraphs
    \/ StartBatches
    \/ BatchAnnotateRaises
    \/ BatchAnnotated
    \/ BatchAnnotatedMismatch
    \/ BatchAnnotatedMissingRow
    \/ FinishJob

SpecJob == InitJob /\ [][NextJob]_vars

\* ------------------------------------------- the consumer loop without jobs
\* the worker with a broker that delivers nothing; the while test is a step
\* of the running task, which the event loop resumes after every await
NextLoop ==
    \/ Initialize
    \/ Subscribe
    \/ LoopCheck
    \/ FetchTimeout
    \/ FetchError
    \/ signal_handler
    \/ StopBegin
    \/ StopClose
    \/ SetProcessorShutdown

SpecLoop == Init /\ [][NextLoop]_vars /\ WF_vars(LoopCheck)

\* the same worker when every call of consume_jobs ends: the subscription
\* calls and the fetch return or raise in finite time, and a subscription
\* that is tried again and again succeeds in the end
SpecShutdown ==
    /\ Init /\ [][NextLoop]_vars
    /\ WF_vars(LoopCheck)
    /\ WF_vars(FetchTimeout \/ FetchError)
    /\ WF_vars(Subscribe)

\* ------------------------------------------------------------------ main()
\* stop() runs beside start()
StartDoneMut == TRUE

\* main(): await worker.start() inside try, await worker.stop() in the finally
\* block: stop() is called when start() has returned or raised
StartDone == pc \in {"returned", "start_raised"}

\* the stop() call of main()
MainStop ==
    /\ StartDone
    /\ stop_pc = "idle"
    /\ StopBegin

\* the worker as main() runs it
NextMain ==
    \/ Initialize
    \/ Subscribe
    \/ LoopCheck
    \/ FetchTimeout
    \/ FetchError
    \/ FetchMessage
    \/ ShutdownNak
    \/ DecodeFails
    \/ PayloadRaises
    \/ UnsupportedJob
    \/ BookLookupRaises
    \/ MetadataRaises
    \/ DuplicateJob
    \/ NoParagraphs
    \/ StartBatches
    \/ BatchAnnotateRaises
    \/ BatchAnnotated
    \/ BatchAnnotatedMismatch
    \/ BatchAnnotatedMissingRow
    \/ LoopRaises
    \/ FinishJob
    \/ AckSucceeds
    \/ AckFails
    \/ NakCall
    \/ signal_handler
    \/ MainStop
    \/ StopClose
    \/ SetProcessorShutdown

SpecMain == Init /\ [][NextMain]_vars

\* ------------------------------------------------ BullMQWorker (worker.py)
\* the jobs of the queue: the name and the data field of their hash
BullJobs == {"j1", "j2", "j3", "j4"}

\* hget(job_key, "name")
BullJobName(job_id) ==
    CASE job_id = "j1" -> "add-advanced-diacritics"
      [] job_id = "j2" -> "add-simple-diacritics"
      [] job_id = "j3" -> "add-diacritics"
      [] OTHER -> "add-simple-diacritics"

\* hget(job_key, "data") gives a value
BullJobHasData(job_id) == job_id # "j4"

\* the sequences of distinct jobs
BullLists ==
    {w \in UNION {[1..n -> BullJobs] : n \in 0..Cardinality(BullJobs)} :
        \A a, b \in DOMAIN w : a # b => w[a] # w[b]}

\* listen_for_jobs starts on a waiting list that holds some jobs in some order
InitBull ==
    /\ pc = "created"
    /\ running = FALSE
    /\ shutdown_requested = FALSE
    /\ nats_client = "None"
    /\ job_processor = FALSE
    /\ stop_pc = "idle"
    /\ msg = NoMsg
    /\ attempt = 0
    /\ ack_success = FALSE
    /\ result = NoResult
    /\ processed_jobs = {}
    /\ jp_shutdown_requested = FALSE
    /\ job = NoJob
    /\ delivered = [m \in Messages |-> 0]
    /\ acked = {}
    /\ store = Table(NumRecordsB1)
    /\ \E metadata \in {NoMetadata, Metadata("str", "invalid", None)} :
          books = BookTable(metadata)
    /\ calls = NoCalls
    /\ hist = NoHist
    /\ \E w \in BullLists :
          bull = [NoBull EXCEPT !.waiting = w, !.pc = "listening"]

\* lrem(key, 1, job_id): the first occurrence is taken out of the list
lrem(list, job_id) ==
    IF \E k \in DOMAIN list : list[k] = job_id
    THEN LET k == CHOOSE k \in DOMAIN list :
                     list[k] = job_id /\ \A h \in 1..(k - 1) : list[h] # job_id
         IN  SubSeq(list, 1, k - 1) \o SubSeq(list, k + 1, Len(list))
    ELSE list

\* the job goes to the head of the waiting list
put_backMut(waiting, job_id) == <<job_id>> \o waiting

\* rpush(waiting_key, job_id): the job goes to the tail of the waiting list,
\* the end that brpoplpush takes from
put_back(waiting, job_id) == Append(waiting, job_id)

\* brpoplpush(waiting_key, active_key): the tail of the waiting list goes to
\* the head of the active list
BullPop ==
    /\ bull.pc = "listening"
    /\ bull.waiting # <<>>
    /\ LET job_id == bull.waiting[Len(bull.waiting)]
       IN  bull' = [bull EXCEPT !.waiting = SubSeq(@, 1, Len(@) - 1),
                                !.active = <<job_id>> \o @,
                                !.job_id = job_id,
                                !.pc = "job"]
    /\ UNCHANGED <<workerVars, msgVars, jpVars, brokerVars, dbVars, obsVars>>

\* if not job_data_raw: the job is taken out of the active list, continue
BullNoData ==
    /\ bull.pc = "job"
    /\ ~BullJobHasData(bull.job_id)
    /\ bull' = [bull EXCEPT !.active = lrem(@, bull.job_id), !.job_id = None,
                            !.pc = "listening"]
    /\ UNCHANGED <<workerVars, msgVars, jpVars, brokerVars, dbVars, obsVars>>

\* a supported job: process_job, then the job goes from active to completed,
\* or to failed in the handler when any of these calls raised
BullProcess ==
    /\ bull.pc = "job"
    /\ BullJobHasData(bull.job_id)
    /\ is_job_supported(BullJobName(bull.job_id))
    /\ \E ok \in BOOLEAN :
        bull' = [bull EXCEPT !.active = lrem(@, bull.job_id),
                             !.completed = IF ok THEN <<bull.job_id>> \o @ ELSE @,
                             !.failed = IF ok THEN @ ELSE <<bull.job_id>> \o @,
                             !.job_id = None,
                             !.pc = "listening"]
    /\ UNCHANGED <<workerVars, msgVars, jpVars, brokerVars, dbVars, obsVars>>

\* not a supported job: out of the active list and back on the waiting list
BullPutBack ==
    /\ bull.pc = "job"
    /\ BullJobHasData(bull.job_id)
    /\ ~is_job_supported(BullJobName(bull.job_id))
    /\ bull' = [bull EXCEPT !.active = lrem(@, bull.job_id),
                            !.waiting = put_back(@, bull.job_id),
                            !.job_id = None,
                            !.pc = "listening"]
    /\ UNCHANGED <<workerVars, msgVars, jpVars, brokerVars, dbVars, obsVars>>

\* the JS worker takes a job of its own from the waiting list
OtherWorkerTakes ==
    /\ bull.waiting # <<>>
    /\ LET job_id == bull.waiting[Len(bull.waiting)]
       IN  /\ ~is_job_supported(BullJobName(job_id))
           /\ bull' = [bull EXCEPT !.waiting = SubSeq(@, 1, Len(@) - 1)]
    /\ UNCHANGED <<workerVars, msgVars, jpVars, brokerVars, dbVars, obsVars>>

\* one turn of the while loop of listen_for_jobs
BullStep == BullPop \/ BullNoData \/ BullProcess \/ BullPutBack

NextBull ==
    \/ BullPop
    \/ BullNoData
    \/ BullProcess
    \/ BullPutBack
    \/ OtherWorkerTakes

\* the loop goes on as long as it has a step to take; the JS worker may never
\* come
SpecBull == InitBull /\ [][NextBull]_vars /\ WF_vars(BullStep)

\* ------------------------------------------------- the deduplication keys
\* identifiers as they arrive in a payload: any string, the separator of the
\* hashed string included
KeyIds == {"b1", "c1", "b1:x", "x:c1"}

InitKey ==
    /\ InitJob
    /\ store = Table(0)
    /\ books = BookTable(NoMetadata)

\* a job for (book_id, correlation_id) whose key is in processed_jobs: the
\* return of lines 275-288
KeySkipped ==
    /\ \E book_id, correlation_id \in KeyIds :
        /\ AlreadyProcessed(generate_job_id(book_id, correlation_id))
        /\ result' = DuplicateResult
        /\ hist' = [hist EXCEPT !.wasDone = <<book_id, correlation_id>> \in hist.loopDone,
                                !.outcome = "duplicate"]
    /\ UNCHANGED <<workerVars, msg, attempt, ack_success, jpVars, brokerVars, dbVars, bullVars,
                   calls>>

\* a job for (book_id, correlation_id) whose key is not in processed_jobs and
\* whose loop ends: the key is added
KeyCompleted ==
    /\ Cardinality(processed_jobs) < MaxKeys
    /\ \E book_id, correlation_id \in KeyIds :
        /\ ~AlreadyProcessed(generate_job_id(book_id, correlation_id))
        /\ processed_jobs' =
              processed_jobs_add(processed_jobs, generate_job_id(book_id, correlation_id))
        /\ result' = [status |-> "completed", book_id |-> book_id,
                      correlation_id |-> correlation_id]
        /\ hist' = [hist EXCEPT !.loopDone = @ \cup {<<book_id, correlation_id>>},
                                !.wasDone = FALSE,
                                !.outcome = "loop_returned"]
    /\ UNCHANGED <<workerVars, msg, attempt, ack_success, jp_shutdown_requested, job,
                   brokerVars, dbVars, bullVars, calls>>

NextKey == KeySkipped \/ KeyCompleted

SpecKey == InitKey /\ [][NextKey]_vars

TypeOK ==
    /\ pc \in {"created", "start_raised", "subscribe", "loop", "fetching", "msg",
               "batch", "ack", "nak", "returned"}
    /\ running \in BOOLEAN
    /\ shutdown_requested \in BOOLEAN
    /\ jp_shutdown_requested \in BOOLEAN
    /\ attempt \in 0..AckAttempts
    /\ msg \in Messages \cup {NoMsg}

\* ===================================================================== claims
\* total_batches = (len(paragraphs) + batch_size - 1) // batch_size
NumBatches(n) == (n + batch_size - 1) \div batch_size

\* the records of the first n batches of a paragraph list
FirstBatches(paragraphs, n) ==
    SetOf(SubSeq(paragraphs, 1, Min(n * batch_size, Len(paragraphs))))

\* C1: a job whose (bookId, correlationId) pair belongs to a job that already
\* ran its batch loop and returned in this process makes no AnnotateBatch call
\* and no update_paragraph_content call, also when it is the redelivery of a
\* message whose three ack attempts failed.
C1_DuplicateMakesNoCalls ==
    (hist.wasDone \/ hist.redelivery) => (calls.annotate = 0 /\ calls.update = 0)

C1_Witness ==
    /\ hist.redelivery
    /\ hist.wasDone
    /\ pc = "ack"
    /\ hist.returned
    /\ calls.process_job = 1

\* C2: a job whose key is already in the processed set gets a result whose
\* status is not `completed` (skipped-duplicate) with zero counts.
C2_DuplicateStatusSkipped ==
    (pc = "ack" /\ hist.inSet) =>
        /\ result.status # "completed"
        /\ result.processed_count = 0
        /\ result.error_count = 0

\* C3: when process_job returned normally, msg.ack is called until the first
\* attempt that succeeds, at most 3 times, never again after a success, and
\* msg.nak is never called.
C3_AckUntilSuccess ==
    hist.returned =>
        /\ calls.nak = 0
        /\ pc # "nak"
        /\ calls.ack <= 3
        /\ ack_success => pc # "ack"
        /\ (pc # "ack" /\ ~ack_success) => calls.ack = 3

C3_Witness ==
    /\ hist.returned
    /\ ack_success
    /\ calls.ack = 3
    /\ pc = "loop"

\* C4: when decoding or process_job raises, msg.nak is called exactly once and
\* msg.ack never, for that message.
C4_RaiseNaksOnce ==
    hist.raised =>
        /\ calls.ack = 0
        /\ pc # "ack"
        /\ calls.nak = IF pc = "nak" THEN 0 ELSE 1

C4_Witness ==
    /\ hist.raised
    /\ hist.outcome = "job_raised"
    /\ calls.process_job = 1
    /\ calls.nak = 1
    /\ pc = "loop"

\* C5: when all 3 ack attempts fail, process_message returns normally: no nak,
\* no second process_job for the delivery, and the consumer is back in its loop
\* (it leaves the loop only because its condition is false).
C5_AckExhaustedReturns ==
    hist.outcome = "ack_exhausted" =>
        /\ calls.nak = 0
        /\ calls.ack = 3
        /\ calls.process_job = 1
        /\ ~ack_success
        /\ pc \in {"loop", "fetching", "returned"}
        /\ pc = "returned" => ~LoopCondition

C5_Witness ==
    /\ hist.outcome = "ack_exhausted"
    /\ pc = "fetching"
    /\ calls.process_job = 1

\* C6: in a batch whose AnnotateBatch call succeeds and in which exactly one
\* update raises, that record is the only failure, every record of the batch
\* had its update attempt, the others are counted as processed, and the other
\* batches of the job are run as well.
C6_PartialFailureIsolated ==
    /\ (hist.lastBatch.annotate = "ok" /\ Cardinality(hist.lastBatch.raised) = 1) =>
          /\ hist.lastBatch.errors = 1
          /\ hist.lastBatch.processed = Cardinality(hist.lastBatch.recs) - 1
          /\ hist.lastBatch.attempted = hist.lastBatch.recs
    /\ (pc = "ack" /\ hist.partial /\ ~hist.broke) =>
          /\ hist.annotated = SetOf(job.paragraphs)
          /\ calls.annotate = NumBatches(Len(job.paragraphs))

C6_Witness ==
    /\ pc = "ack"
    /\ hist.partial
    /\ ~hist.broke
    /\ calls.annotate = 2
    /\ hist.lastBatch.raised = {}
    /\ result.error_count = 1
    /\ result.processed_count = Len(job.paragraphs) - 1

\* C7: when the AnnotateBatch call of a batch raises, the failure count grows
\* by the size of that batch, no record of the batch is updated, and the later
\* batches of the job are run as well.
C7_BatchFailureIsolated ==
    /\ hist.lastBatch.annotate = "raise" =>
          /\ hist.lastBatch.errors = Cardinality(hist.lastBatch.recs)
          /\ hist.lastBatch.processed = 0
          /\ hist.lastBatch.recs \cap hist.updated = {}
    /\ (pc = "ack" /\ hist.batchFailed /\ ~hist.broke) =>
          /\ hist.annotated = SetOf(job.paragraphs)
          /\ calls.annotate = NumBatches(Len(job.paragraphs))

C7_Witness ==
    /\ pc = "ack"
    /\ hist.failedBatches = 1
    /\ calls.annotate = 2
    /\ hist.lastBatch.annotate = "ok"
    /\ result.error_count = 10
    /\ ~hist.broke

\* C8: when the processor's shutdown flag becomes true after batch N and before
\* batch N+1, no record of batch N+1 or later is annotated or updated, the
\* counts add up to the records of batches 1..N, and the status is completed.
C8_ShutdownBoundary ==
    hist.flagAt >= 0 =>
        /\ calls.annotate = hist.flagAt
        /\ hist.annotated \cup hist.updated \subseteq FirstBatches(job.paragraphs, hist.flagAt)
        /\ pc = "ack" =>
              /\ result.status = "completed"
              /\ result.processed_count + result.error_count
                    = Cardinality(FirstBatches(job.paragraphs, hist.flagAt))

C8_Witness ==
    /\ hist.flagAt = 1
    /\ pc = "ack"
    /\ hist.broke
    /\ result.processed_count + result.error_count = 10

\* C9: a message fetched when shutdown has been requested is nak'd without a
\* process_job call and no other fetch is issued; no process_job call starts
\* once shutdown_requested is set on the consumer.
C9_NoJobAfterShutdown ==
    [][ /\ calls'.process_job > calls.process_job => ~shutdown_requested
        /\ (shutdown_requested /\ pc = "msg" /\ pc' # "msg") =>
              /\ calls'.process_job = 0
              /\ calls'.nak = calls.nak + 1
              /\ pc' \in {"returned", "loop"}
        /\ (shutdown_requested /\ pc' = "fetching") => pc = "fetching" ]_vars

C9_Witness ==
    /\ hist.outcome = "shutdown_nak"
    /\ pc = "returned"
    /\ calls.nak = 1
    /\ calls.process_job = 0

\* C10: once stop() was called or the signal handler ran, the shutdown flag of
\* the job processor is true.
C10_ShutdownReachesProcessor ==
    (shutdown_requested /\ job_processor) => jp_shutdown_requested

\* C11: a job whose record fetch returns zero records returns status completed
\* with success count 0, failure count 0 and success rate 0, makes no
\* AnnotateBatch and no update_paragraph_content call, and goes on to the ack
\* of its message.
C11_EmptyFetchResult ==
    hist.outcome \in {"empty", "fetch_failed"} =>
        /\ pc = "ack"
        /\ calls.annotate = 0 /\ calls.update = 0 /\ calls.nak = 0
        /\ result.status = "completed"
        /\ result.processed_count = 0
        /\ result.error_count = 0
        /\ "success_rate_percentage" \in DOMAIN result
        /\ result.success_rate_percentage = 0

\* C12: for a job with N fetched records and no shutdown, the k-th
\* AnnotateBatch call is made on records 10(k-1)+1 .. min(10k, N) of the fetched
\* list and there are ceil(N/10) calls, so every record is in exactly one
\* batch; when no collaborator call fails the result is status completed,
\* total N, succeeded N, failed 0, success rate 100.0.
C12_BatchPartition ==
    LET N == Len(job.paragraphs)
    IN  /\ \A k \in 1..Len(hist.batches) :
              hist.batches[k] = SubSeq(job.paragraphs, 10 * (k - 1) + 1, Min(10 * k, N))
        /\ calls.annotate = Len(hist.batches)
        /\ (pc = "ack" /\ hist.outcome = "loop_returned" /\ ~hist.broke) =>
              /\ 10 * (calls.annotate - 1) < N /\ N <= 10 * calls.annotate
              /\ \A x \in 1..N :
                    Cardinality({k \in 1..Len(hist.batches) :
                                    job.paragraphs[x] \in SetOf(hist.batches[k])}) = 1
              /\ (~hist.batchFailed /\ ~hist.updateRaised /\ ~hist.mismatch) =>
                    /\ result.status = "completed"
                    /\ result.total_paragraphs = N
                    /\ result.processed_count = N
                    /\ result.error_count = 0
                    /\ result.success_rate_percentage = 1000

C12_Witness ==
    /\ pc = "ack"
    /\ hist.outcome = "loop_returned"
    /\ Len(job.paragraphs) = 21
    /\ calls.annotate = 3
    /\ Len(hist.batches[1]) = 10 /\ Len(hist.batches[2]) = 10 /\ Len(hist.batches[3]) = 1
    /\ ~hist.batchFailed /\ ~hist.updateRaised /\ ~hist.mismatch
    /\ result.processed_count = 21
    /\ result.success_rate_percentage = 1000

\* C13: process_job for a payload without a bookId fails before any
\* get_book_by_id, get_paragraphs_for_diacritics, update_paragraph_content or
\* AnnotateBatch call, leaves the processed-jobs set as it was, and the
\* consumer naks the message (and never acks it).
C13_MissingBookIdFails ==
    (calls.process_job > 0 /\ BookIdOf(msg) = None) =>
        /\ hist.raised
        /\ calls.get_book = 0 /\ calls.fetch_paragraphs = 0
        /\ calls.annotate = 0 /\ calls.update = 0
        /\ processed_jobs = hist.setBefore
        /\ calls.ack = 0 /\ pc # "ack"
        /\ calls.nak = IF pc = "nak" THEN 0 ELSE 1

\* C14: process_job for a job type outside {add-advanced-diacritics,
\* add-simple-diacritics} raises with no RecordStore and no AnnotationService
\* call and leaves the processed-jobs set as it was; the consumer naks the
\* message once and never acks it.
C14_UnsupportedTypeRaises ==
    (calls.process_job > 0
       /\ msg.subject[3] \notin {"add-advanced-diacritics", "add-simple-diacritics"}) =>
        /\ hist.raised
        /\ calls.get_book = 0 /\ calls.fetch_paragraphs = 0
        /\ calls.annotate = 0 /\ calls.update = 0
        /\ processed_jobs = hist.setBefore
        /\ calls.ack = 0 /\ pc # "ack"
        /\ calls.nak = IF pc = "nak" THEN 0 ELSE 1

C14_Witness ==
    /\ hist.outcome = "unsupported_raised"
    /\ msg.subject[3] = "add-diacritics"
    /\ calls.process_job = 1
    /\ calls.nak = 1
    /\ pc = "loop"

\* C15: when the metadata of the book is present but unparsable (invalid JSON
\* text, or JSON that is not an object), the job does not raise: it keeps the
\* variant given by the job, runs its batches and returns status completed.
C15_BadMetadataFallsBack ==
    (calls.process_job > 0 /\ is_job_supported(msg.subject[3])
       /\ BookIdOf(msg) = "b1" /\ books["b1"].json \in {"invalid", "array"}) =>
        /\ ~hist.raised
        /\ pc = "batch" => job.diacritics_method = EntryMethod(msg.subject[3])
        /\ pc = "ack" => result.status = "completed"

\* C16: process_message passes to process_job the value under `data` when the
\* decoded body is an object that has this field, and the whole decoded body
\* otherwise; the envelope fields jobId, jobName and timestamp of a nested body
\* are not part of what is passed.
C16_InnerPayloadPassed ==
    calls.args.job_type # None =>
        /\ msg.body.kind = "object"
        /\ calls.args.job_data = IF "data" \in DOMAIN msg.body.value
                                 THEN msg.body.value.data
                                 ELSE msg.body.value
        /\ "data" \in DOMAIN msg.body.value =>
              DOMAIN calls.args.job_data \cap {"jobId", "jobName", "timestamp"} = {}

C16_Witness ==
    /\ pc = "batch"
    /\ "data" \in DOMAIN msg.body.value
    /\ "jobId" \in DOMAIN msg.body.value
    /\ calls.process_job = 1
    /\ calls.args.job_data = FilteredBody("b1", "c1", <<2, 11>>)

\* C17: the job type handed to process_job is the last dot-separated segment
\* of the subject of the message, whatever jobName the body carries.
C17_JobTypeFromSubject ==
    calls.args.job_type # None => calls.args.job_type = msg.subject[3]

C17_Witness ==
    /\ pc = "batch"
    /\ calls.process_job = 1
    /\ "jobName" \in DOMAIN msg.body.value
    /\ msg.body.value.jobName = "add-diacritics"
    /\ calls.args.job_type = "add-simple-diacritics"
    /\ job.diacritics_method = "simple"

C19_ConnectFailureStopsStart ==
    /\ nats_client = "unconnected" =>
          /\ pc = "start_raised"
          /\ ~job_processor
          /\ ~running
    /\ pc = "start_raised" =>
          /\ ~job_processor
          /\ TotalDelivered = 0
          /\ msg = NoMsg
          /\ calls.process_job = 0

C19_Witness ==
    /\ nats_client = "unconnected"
    /\ pc = "start_raised"
    /\ stop_pc = "idle"
    /\ TotalDelivered = 0

\* C20: when the payload carries paragraphIds, only records whose id is in
\* that list are fetched, annotated and updated by the job.
C20_OnlyListedRecords ==
    (calls.args.job_type # None /\ "paragraphIds" \in DOMAIN calls.args.job_data) =>
        LET ids == SetOf(calls.args.job_data.paragraphIds)
        IN  /\ SetOf(job.paragraphs) \subseteq ids
            /\ hist.annotated \subseteq ids
            /\ hist.updated \subseteq ids

\* C21: when AnnotateBatch returns a list whose length differs from the number
\* of records of the batch, every record of the batch is counted as failed and
\* none of them is updated.
C21_MismatchFailsBatch ==
    hist.lastBatch.annotate = "mismatch" =>
        /\ hist.lastBatch.errors = Cardinality(hist.lastBatch.recs)
        /\ hist.lastBatch.processed = 0
        /\ hist.lastBatch.attempted = {}

\* C22: the key of a job that is not a duplicate is added to processed_jobs
\* only when the batch loop has ended (all batches done, or shutdown); before
\* the first batch, during the loop and when process_job raises it is not in
\* the set.
C22_KeyAddedAfterLoop ==
    [][ /\ processed_jobs' # processed_jobs =>
              /\ pc = "batch" /\ pc' = "ack"
              /\ job.i >= Len(job.paragraphs) \/ jp_shutdown_requested
              /\ processed_jobs' = processed_jobs \cup {JobIdOf(msg)}
        /\ (~hist'.inSet /\ pc' \in {"msg", "batch", "nak"}) =>
              JobIdOf(msg') \notin processed_jobs' ]_vars

C22_Witness ==
    /\ pc = "ack"
    /\ hist.outcome = "loop_returned"
    /\ ~hist.inSet
    /\ hist.setBefore = {}
    /\ calls.annotate = 2
    /\ processed_jobs = {JobIdOf(msg)}

\* C23: when process_job raised after some records of the job were updated, a
\* redelivery of the same message in the same process makes no AnnotateBatch
\* call and no update_paragraph_content call.
C23_RedeliveryAfterRaiseNoOp ==
    hist.afterPartial => (calls.annotate = 0 /\ calls.update = 0)

\* C24: when a job has stopped early on shutdown with batches left, its key is
\* in the processed set; a later delivery of the same job in this process is
\* skipped: it annotates and updates nothing and returns zero counts, so the
\* records of the batches left are not processed by it.
C24_EarlyStopIsFinal ==
    /\ (pc = "ack" /\ hist.outcome = "loop_returned" /\ hist.broke) =>
          JobIdOf(msg) \in processed_jobs
    /\ hist.afterBroke =>
          /\ JobIdOf(msg) \in processed_jobs
          /\ calls.annotate = 0 /\ calls.update = 0 /\ calls.fetch_paragraphs = 0
          /\ pc # "batch"
          /\ (pc = "ack" /\ hist.returned) =>
                (result.processed_count = 0 /\ result.error_count = 0)

C24_Witness ==
    /\ hist.afterBroke
    /\ pc = "ack"
    /\ hist.outcome = "duplicate"
    /\ calls.process_job = 1
    /\ jp_shutdown_requested

\* C25: a job in which records fail, up to every batch failing, returns status
\* completed, goes on to the ack of its message with no nak, and has its key
\* in the processed set; failures of records alone raise nothing.
C25_FailuresStillComplete ==
    /\ (pc = "batch" /\ job.error_count > 0) => (~hist.raised /\ calls.nak = 0)
    /\ (pc = "ack" /\ hist.outcome = "loop_returned" /\ result.error_count > 0) =>
          /\ result.status = "completed"
          /\ hist.returned /\ ~hist.raised
          /\ calls.nak = 0
          /\ JobIdOf(msg) \in processed_jobs

C25_Witness ==
    /\ pc = "ack"
    /\ hist.outcome = "loop_returned"
    /\ hist.failedBatches = 2
    /\ result.error_count = Len(job.paragraphs)
    /\ result.processed_count = 0
    /\ result.status = "completed"
    /\ calls.ack = 1

\* C26: the update attempts of a job follow the order of the fetched list:
\* batches in ascending index, records of a batch in list order, and every
\* batch before the last one annotated has had all its records attempted or
\* has failed as a whole before a record of a later batch is touched.
C26_UpdatesInListOrder ==
    LET P      == job.paragraphs
        seq    == hist.updateSeq
        Pos(x) == CHOOSE k \in 1..Len(P) : P[k] = x
        Batch(k) == SetOf(SubSeq(P, 10 * (k - 1) + 1, Min(10 * k, Len(P))))
    IN  /\ \A a \in 1..(Len(seq) - 1) : Pos(seq[a]) < Pos(seq[a + 1])
        /\ SetOf(seq) = hist.updated
        /\ hist.updated \cup hist.annotated \subseteq FirstBatches(P, calls.annotate)
        /\ \A k \in 1..calls.annotate :
              \/ Batch(k) \subseteq hist.updated
              \/ Batch(k) \cap hist.updated = {}
              \/ hist.mismatch

C26_Witness ==
    /\ pc = "batch"
    /\ Len(job.paragraphs) = 21
    /\ calls.annotate = 3
    /\ hist.failedBatches = 1
    /\ Len(hist.updateSeq) = 11
    /\ hist.updateSeq[10] = 10 /\ hist.updateSeq[11] = 21
    /\ ~hist.mismatch

\* C27: a fetch timeout or a fetch error does not end the loop of
\* consume_jobs: control goes back to the while test and, while no shutdown
\* was requested, another fetch is issued, every time; the loop is left only
\* when running is false or shutdown_requested is true.
C27_FetchRetried ==
    /\ [][ /\ (pc = "fetching" /\ pc' # "fetching") => pc' \in {"loop", "msg"}
           /\ (pc = "loop" /\ pc' = "returned") => (~running \/ shutdown_requested)
           /\ (pc = "loop" /\ pc' # "loop" /\ running /\ ~shutdown_requested) =>
                 pc' = "fetching" ]_vars
    /\ (pc = "loop" /\ hist.outcome \in {"timeout", "fetch_error"})
          ~> (pc = "fetching" \/ ~running \/ shutdown_requested)

C27_Witness ==
    /\ pc = "fetching"
    /\ hist.outcome = "fetch_error"
    /\ running /\ ~shutdown_requested
    /\ stop_pc = "idle"

\* C28: a message that process_message naks does not stop the consumer: the
\* nak leaves running and shutdown_requested as they are and returns to the
\* loop of consume_jobs, whose next step is another fetch unless a shutdown
\* was requested; a valid message fetched later is processed and acked.
C28_NakKeepsConsuming ==
    [][ /\ (pc = "nak" /\ pc' # "nak") =>
              /\ pc' = "loop"
              /\ running' = running /\ shutdown_requested' = shutdown_requested
        /\ (pc = "loop" /\ pc' # "loop" /\ hist.raised /\ running /\ ~shutdown_requested) =>
              pc' = "fetching" ]_vars

C28_Witness ==
    /\ delivered[Message("add-diacritics", Object(FlatBody("b1", "c1")))] = 1
    /\ msg = Message("add-advanced-diacritics", Object(FlatBody("b1", "c1")))
    /\ hist.outcome = "acked"
    /\ ack_success
    /\ pc = "loop"
    /\ running /\ ~shutdown_requested

\* C29: when the metadata of the book is parseable (a JSON string or an
\* object) and its diacriticsType is simple, a job submitted as the advanced
\* type sends every batch to the simple variant.
C29_StoredSimpleOverrides ==
    (calls.annotate > 0 /\ msg.subject[3] = "add-advanced-diacritics"
       /\ BookIdOf(msg) = "b1"
       /\ books["b1"].json = "object" /\ books["b1"].diacriticsType = "simple") =>
        hist.variants = {"add_simple_diacritics_batch"}

C29_Witness ==
    /\ pc = "ack"
    /\ msg.subject[3] = "add-advanced-diacritics"
    /\ books["b1"] = Metadata("str", "object", "simple")
    /\ calls.annotate = 3
    /\ hist.variants = {"add_simple_diacritics_batch"}

\* C30: initialize() creates the stream and the durable consumer only when
\* absent: a lookup that succeeds is followed by no add_stream / add_consumer
\* call, and when the stream or the consumer is already there when the create
\* call arrives, initialize() still succeeds.
C30_CreateIfAbsent ==
    \A o \in {hist.setup.stream, hist.setup.consumer} :
        /\ o.lookup = "found" => ~o.add_called
        /\ (o.add_called /\ o.at_create = "present") =>
              (~o.raises /\ pc # "start_raised")

\* C31: in every result returned after the batch loop, processed_count +
\* error_count <= total_paragraphs, with equality when the loop was not left
\* on the shutdown flag; every record of a batch is counted once, as
\* processed or as an error, never as both.
C31_CountsAddUp ==
    /\ (pc = "batch" /\ calls.annotate > 0) =>
          /\ job.processed_count + job.error_count = Cardinality(hist.annotated)
          /\ hist.lastBatch.processed + hist.lastBatch.errors =
                Cardinality(hist.lastBatch.recs)
          /\ hist.lastBatch.processed <=
                Cardinality(hist.lastBatch.attempted \ hist.lastBatch.raised)
    /\ (pc = "ack" /\ hist.outcome = "loop_returned") =>
          /\ result.processed_count + result.error_count <= result.total_paragraphs
          /\ result.processed_count + result.error_count = Cardinality(hist.annotated)
          /\ ~hist.broke =>
                result.processed_count + result.error_count = result.total_paragraphs

C31_Witness ==
    /\ pc = "ack"
    /\ hist.outcome = "loop_returned"
    /\ ~hist.broke
    /\ hist.failedBatches = 1
    /\ hist.updateRaised
    /\ result.total_paragraphs = 12
    /\ result.processed_count = 1
    /\ result.error_count = 11

\* C32: the deduplication key does not depend on the job type: a job of one
\* diacritics type that arrives for the first time after a job of the other
\* type with the same (bookId, correlationId) ran its loop and returned is
\* skipped without an annotation or an update call.
C32_KeyIgnoresJobType ==
    \A m \in Messages :
        (/\ msg = m /\ delivered[m] = 1 /\ hist.wasDone
         /\ \A o \in Messages \ {m} :
               (Pair(o) = Pair(m) /\ delivered[o] > 0) => JobType(o) # JobType(m))
        => /\ calls.annotate = 0 /\ calls.update = 0
           /\ hist.inSet
           /\ pc = "ack" => (hist.outcome = "duplicate" /\ result = DuplicateResult)

C32_Witness ==
    /\ pc = "ack"
    /\ JobType(msg) = "add-simple-diacritics"
    /\ delivered[msg] = 1
    /\ hist.wasDone
    /\ hist.outcome = "duplicate"
    /\ calls.annotate = 0 /\ calls.update = 0
    /\ \E o \in Messages :
          /\ JobType(o) = "add-advanced-diacritics" /\ Pair(o) = Pair(msg)
          /\ delivered[o] = 1 /\ o \in acked

\* C33: two jobs whose (bookId, correlationId) pairs differ never get the
\* same key: a job is skipped only when a job with its own pair completed.
C33_DistinctPairsDistinctKeys ==
    /\ hist.outcome = "duplicate" => hist.wasDone
    /\ \A p, q \in KeyIds \X KeyIds :
          (p \in hist.loopDone /\ q \in hist.loopDone /\ p # q) =>
              generate_job_id(p[1], p[2]) # generate_job_id(q[1], q[2])

\* C34: an update_paragraph_content call for a record that is no longer in
\* the store returns normally, and the job counts the record in
\* processed_count, not in error_count.
C34_MissingRowCountsProcessed ==
    hist.lastBatch.missing # {} =>
        /\ hist.lastBatch.missing \subseteq hist.lastBatch.attempted
        /\ hist.lastBatch.missing \cap hist.lastBatch.raised = {}
        /\ hist.lastBatch.processed = Cardinality(hist.lastBatch.recs)
        /\ hist.lastBatch.errors = 0
        /\ pc = "ack" => result.processed_count >= Cardinality(hist.lastBatch.recs)

C34_Witness ==
    /\ pc = "ack"
    /\ hist.outcome = "loop_returned"
    /\ hist.lastBatch.missing # {}
    /\ Cardinality(hist.lastBatch.recs) = 2
    /\ result.processed_count = 12
    /\ result.error_count = 0

\* C35: when the store fails while the records of a job are fetched,
\* get_paragraphs_for_diacritics gives an empty list and does not raise: the
\* job returns status completed with zero counts, the message goes to its
\* ack and is not nak'd, no record is updated and the key of the job is not
\* marked processed.
C35_FetchFailureIsEmpty ==
    hist.outcome = "fetch_failed" =>
        /\ pc = "ack"
        /\ hist.returned /\ ~hist.raised
        /\ result.status = "completed"
        /\ result.processed_count = 0 /\ result.error_count = 0
        /\ calls.nak = 0
        /\ calls.annotate = 0 /\ calls.update = 0
        /\ JobIdOf(msg) \notin processed_jobs
        /\ processed_jobs = hist.setBefore

C35_Witness ==
    /\ hist.outcome = "fetch_failed"
    /\ pc = "ack"
    /\ StoredParagraphs(BookIdOf(msg)) # <<>>
    /\ result = EmptyResult
    /\ calls.fetch_paragraphs = 1

\* C36: a job whose fetch gives no records leaves the processed-jobs set as
\* it was; a later job with the same (bookId, correlationId) is not skipped
\* because of it: it fetches again and processes the records it finds.
C36_EmptyJobNotMarked ==
    [][ /\ (hist'.outcome \in {"empty", "fetch_failed"} /\ hist.outcome = "none") =>
              (processed_jobs' = processed_jobs /\ calls'.fetch_paragraphs = 1)
        /\ hist'.outcome = "duplicate" => hist'.wasDone
        /\ (pc' = "batch" /\ ~hist'.inSet) => calls'.fetch_paragraphs = 1 ]_vars

C36_Witness ==
    /\ pc = "ack"
    /\ hist.outcome = "loop_returned"
    /\ ~hist.wasDone /\ ~hist.inSet
    /\ hist.setBefore = {}
    /\ delivered[msg] = 1
    /\ \E o \in acked : o # msg /\ Pair(o) = Pair(msg) /\ is_job_supported(JobType(o))
    /\ calls.fetch_paragraphs = 1
    /\ result.processed_count = 12

\* C37: once shutdown has been requested (signal handler or stop()),
\* consume_jobs eventually returns when every fetch ends in finite time: it
\* does not start its subscription again and does not stay in the loop of
\* fetch and pause.
C37_ShutdownEndsConsume ==
    /\ []( ~hist.lateRestart )
    /\ (shutdown_requested /\ pc \in {"subscribe", "loop", "fetching"})
          ~> (pc = "returned")

\* the simple variant if and only if the stored diacriticsType is simple
StoredVariant(metadata) ==
    IF metadata.diacriticsType = "simple" THEN "add_simple_diacritics_batch"
    ELSE "add_advanced_diacritics_batch"

\* C38 as stated: when the book has parseable metadata the variant is decided
\* by the metadata alone, simple if and only if diacriticsType is simple and
\* advanced otherwise, also when diacriticsType is absent.
C38_MetadataAloneDecides ==
    (calls.annotate > 0 /\ BookIdOf(msg) = "b1"
       /\ books["b1"].json \in {"object", "empty_object"}) =>
        hist.variants = {StoredVariant(books["b1"])}

\* C38 amended: the same for metadata that is not empty; an empty object
\* leaves the variant of the job type.
C38_NonEmptyMetadataDecides ==
    /\ (calls.annotate > 0 /\ BookIdOf(msg) = "b1" /\ books["b1"].json = "object") =>
          hist.variants = {StoredVariant(books["b1"])}
    /\ (calls.annotate > 0 /\ BookIdOf(msg) = "b1"
          /\ books["b1"].json = "empty_object") =>
          hist.variants = {BatchMethod(EntryMethod(JobType(msg)))}

C38_Witness ==
    /\ pc = "ack"
    /\ JobType(msg) = "add-simple-diacritics"
    /\ BookIdOf(msg) = "b1"
    /\ books["b1"] = Metadata("value", "object", None)
    /\ calls.annotate = 3
    /\ hist.variants = {"add_advanced_diacritics_batch"}

\* C39: in the program composed by main() the broker connection is closed
\* only after consume_jobs has returned (or start() raised), never while a
\* message is between its fetch and its ack or nak.
C39_CloseAfterConsume ==
    /\ stop_pc # "idle" => pc \in {"returned", "start_raised"}
    /\ nats_client = "closed" => pc \in {"returned", "start_raised"}
    /\ pc \in {"msg", "batch", "ack", "nak"} => nats_client = "connected"

C39_Witness ==
    /\ nats_client = "closed"
    /\ stop_pc = "done"
    /\ pc = "returned"
    /\ shutdown_requested
    /\ acked # {}

\* C40: an unsupported job that listen_for_jobs puts back on the waiting list
\* does not starve the supported jobs: a supported job that is in the waiting
\* list is eventually taken and processed by this worker, also when no other
\* worker ever takes the unsupported job away.
C40_SupportedJobNotStarved ==
    \A j \in {"j1", "j2"} :
        (\E k \in DOMAIN bull.waiting : bull.waiting[k] = j)
            ~> (\E k \in DOMAIN bull.completed : bull.completed[k] = j)
                  \/ (\E k \in DOMAIN bull.failed : bull.failed[k] = j)

====
